---- MODULE Spec2Model ----
(***************************************************************************)
(* A model of the media-library backend in src/index.js: the upload        *)
(* (ingestion) handler, the streaming proxy, the catalog endpoints and the *)
(* two JSON files behind them.                                             *)
(*                                                                         *)
(* Node runs one handler at a time and a handler gives up control only at  *)
(* an `await`.  Every action below is therefore the code of one handler    *)
(* between two awaits; what an external call answers is chosen with \E.    *)
(* JavaScript strings are sequences of one-character strings.              *)
(***************************************************************************)
EXTENDS Integers, Sequences, FiniteSets, TLC

\* ------------------------------------------------------------------ bounds
\* The number of POST /upload invocations (each request slot is used once).
MaxUploads == 2
\* The number of playlists POST /playlist may create.
MaxPlaylists == 2
\* The length to which PUT /playlist/:id/add may grow one playlist.
MaxPlaylistLen == 2
\* The length of the longest original file name of SpecNames.
MaxNameLen == 5

Reqs == 1..MaxUploads

\* ----------------------------------------------------------------- strings
\* JavaScript's null and undefined: apart from every string, whose elements
\* are single characters.
Null == <<"null">>

Str_Unknown == <<"U", "n", "k", "n", "o", "w", "n">>

\* String.prototype.toLowerCase, per character, on the letters the titles,
\* artists and queries below are written with.
Lower(c) ==
  CASE c = "A" -> "a"
    [] c = "B" -> "b"
    [] c = "U" -> "u"
    [] OTHER -> c

toLowerCase(s) == [i \in 1..Len(s) |-> Lower(s[i])]

\* The first index at which `pat` occurs in `s`, 0 when it does not
\* (String.prototype.indexOf, 1-based).
IndexOf(s, pat) ==
  LET hits == {i \in 1..(Len(s) - Len(pat) + 1) : SubSeq(s, i, i + Len(pat) - 1) = pat}
  IN IF hits = {} THEN 0 ELSE CHOOSE i \in hits : \A j \in hits : i <= j

\* String.prototype.includes.
includes(s, pat) == IndexOf(s, pat) # 0

\* String.prototype.replace with a string pattern: the first occurrence only.
replace(s, pat, by) ==
  LET i == IndexOf(s, pat)
  IN IF i = 0 THEN s
     ELSE SubSeq(s, 1, i - 1) \o by \o SubSeq(s, i + Len(pat), Len(s))

\* path.extname on a name without separators: from the last "." to the end;
\* empty when there is no ".", when the only "." is the first character, and
\* for "..".
extname(name) ==
  LET dots == {i \in 1..Len(name) : name[i] = "."}
  IN IF dots = {} THEN <<>>
     ELSE LET d == CHOOSE i \in dots : \A j \in dots : j <= i
          IN IF d = 1 \/ name = <<".", ".">> THEN <<>>
             ELSE SubSeq(name, d, Len(name))

\* ------------------------------------------------------------ backing files
\* What a backing file holds: nothing (absent), only white space, text that
\* JSON.parse rejects, JSON that is not an array, or a JSON array.
Absent == [kind |-> "absent", items |-> <<>>]
Blank == [kind |-> "blank", items |-> <<>>]
Unparseable == [kind |-> "unparseable", items |-> <<>>]
NonArray == [kind |-> "nonarray", items |-> <<>>]
Arr(items) == [kind |-> "array", items |-> items]

\* readJSON without the write of line 55.
readJSONKeepsBlank(content) ==
  CASE content.kind \in {"absent", "unparseable"} ->
         [isArray |-> TRUE, items |-> <<>>, file |-> Arr(<<>>), wrote |-> TRUE]
    [] content.kind = "blank" ->
         [isArray |-> TRUE, items |-> <<>>, file |-> content, wrote |-> FALSE]
    [] content.kind = "nonarray" ->
         [isArray |-> FALSE, items |-> <<>>, file |-> content, wrote |-> FALSE]
    [] OTHER ->
         [isArray |-> TRUE, items |-> content.items, file |-> content, wrote |-> FALSE]

\* readJSON(file): the value returned, the file as the call leaves it, and
\* whether the call wrote the file.  isArray is FALSE when JSON.parse returned
\* something that is no array (an object, a number, a string, null, ...).
readJSON(content) ==
  CASE content.kind = "absent" ->
         [isArray |-> TRUE, items |-> <<>>, file |-> Arr(<<>>), wrote |-> TRUE]
    [] content.kind = "blank" ->
         [isArray |-> TRUE, items |-> <<>>, file |-> Arr(<<>>), wrote |-> TRUE]
    [] content.kind = "unparseable" ->
         [isArray |-> TRUE, items |-> <<>>, file |-> Arr(<<>>), wrote |-> TRUE]
    [] content.kind = "nonarray" ->
         [isArray |-> FALSE, items |-> <<>>, file |-> content, wrote |-> FALSE]
    [] OTHER ->
         [isArray |-> TRUE, items |-> content.items, file |-> content, wrote |-> FALSE]

\* writeJSON(file, data): the file holds the serialized array.
writeJSON(data) == Arr(data)

\* ------------------------------------------------------------------- state
VARIABLES
  songsFile,      \* the content of songs.json
  playlistsFile,  \* the content of playlists.json
  tempFiles,      \* the upload requests whose staged file is in temp_uploads
  remoteObjects,  \* the ids of the objects created in the remote store
  publicObjects,  \* the ids of the remote objects readable by anyone
  up,             \* per POST /upload request: position, locals, response
  resp            \* the last response of the other endpoints

vars == <<songsFile, playlistsFile, tempFiles, remoteObjects, publicObjects, up, resp>>

\* uuidv4(): a value no other call returns.  The id of the song of request r.
SongId(r) == <<"S", ToString(r)>>

\* The id the remote store gives the object it creates for request r.
DriveId(r) == <<"D", ToString(r)>>

\* The original names of the uploaded files.
FileNames == {<<"a", ".", "m">>}

\* What mm.parseFile answers: it throws, or it returns the embedded tags
\* (common.title, .artist, .album, .genre and format.duration; Null and a
\* duration of 0 stand for a missing value).
ParseFailed ==
  [ok |-> FALSE, title |-> Null, artist |-> Null, album |-> Null,
   hasGenre |-> FALSE, genre |-> <<>>, duration |-> 0]
ParsedNoTags ==
  [ok |-> TRUE, title |-> Null, artist |-> Null, album |-> Null,
   hasGenre |-> FALSE, genre |-> <<>>, duration |-> 0]
ParsedFull ==
  [ok |-> TRUE, title |-> <<"A", "b">>, artist |-> <<"B">>, album |-> <<"L">>,
   hasGenre |-> TRUE, genre |-> << <<"p">> >>, duration |-> 3]
ParsedTitleOnly ==
  [ok |-> TRUE, title |-> <<"U", "b">>, artist |-> Null, album |-> Null,
   hasGenre |-> TRUE, genre |-> <<>>, duration |-> 0]
ParseOutcomes == {ParseFailed, ParsedNoTags, ParsedFull, ParsedTitleOnly}

\* What mbApi.lookup answers: it throws, or a recording with or without
\* releases and genres.
LookupOutcomes == [ok : BOOLEAN, releases : BOOLEAN, genres : BOOLEAN]

LookupOutcome(res) ==
  IF ~res.ok THEN "error"
  ELSE IF res.releases /\ res.genres THEN "releases+genres"
  ELSE IF res.releases THEN "releases"
  ELSE IF res.genres THEN "genres"
  ELSE "nothing"

ReleaseMbid == "r1"
MbGenre == <<"r", "o">>
PlainLyrics == <<"l", "a">>

\* The album-art URL of a release (the Cover Art Archive template).
CoverArtUrl(mbid) == <<"https://coverartarchive.org/release/", mbid, "/front-500">>

\* A test for null and undefined alone.
NotNull(x) == x # Null

\* x || y on strings: null, undefined and the empty string are falsy.
Truthy(x) == x # Null /\ x # <<>>
OrElse(x, y) == IF Truthy(x) THEN x ELSE y

IdleRequest ==
  [pc |-> "idle", hasFile |-> FALSE, originalname |-> <<>>,
   title |-> Null, artist |-> Null, album |-> Null, genre |-> Null, duration |-> 0,
   driveFileId |-> Null, albumArt |-> Null, lyrics |-> Null,
   status |-> 0, error |-> "", body |-> <<>>, calls |-> <<>>, tags |-> ParseFailed,
   raced |-> FALSE]

\* calls: the external calls the request has made so far, oldest first, each
\* with its outcome; tags: what mm.parseFile answered; raced: the request saved
\* its song while another request was past its remote upload and had its own
\* song still to save.
Called(u, name, outcome) == [u EXCEPT !.calls = Append(@, <<name, outcome>>)]

\* An answer after which the handler does not return.
RespondAndGoOn(u, status, error) == [u EXCEPT !.status = status, !.error = error]

\* return res.status(status).json({ error })
Respond(u, status, error) == [u EXCEPT !.pc = "done", !.status = status, !.error = error]

\* A deletion that empties the staging directory.
unlinkAllStaged(files, f, ok) == IF ok THEN {} ELSE files

\* A deletion that deletes nothing.
unlinkNothing(files, f, ok) == files

\* fsPromises.unlink(path): the file is gone unless the call fails.
unlink(files, f, ok) == IF ok THEN files \ {f} ELSE files

\* An insertion at the front.
pushFront(items, x) == <<x>> \o items

\* A push onto an empty array in place of the one read.
pushOnlyNew(items, x) == <<x>>

\* Array.prototype.push: songs.push(newSong), playlists.push(newPlaylist),
\* playlist.songs.push(song).
push(items, x) == Append(items, x)

\* The record without its driveFileId.
newSongWithoutHandle(r, u) ==
  [id |-> SongId(r), title |-> u.title, artist |-> u.artist, album |-> u.album,
   genre |-> u.genre, duration |-> u.duration, albumArt |-> u.albumArt,
   lyrics |-> u.lyrics, driveFileId |-> Null]

\* The record built at lines 210-221 (createdAt, which nothing reads, left out).
newSong(r, u) ==
  [id |-> SongId(r), title |-> u.title, artist |-> u.artist, album |-> u.album,
   genre |-> u.genre, duration |-> u.duration, albumArt |-> u.albumArt,
   lyrics |-> u.lyrics, driveFileId |-> u.driveFileId]

\* The positions between the remote upload stage and step 4.
AboutToSave == {"unlink", "mbSearch", "mbLookup", "lyrics"}

OthersAboutToSave(r) == \E o \in Reqs \ {r} : up[o].pc \in AboutToSave

\* Step 4 of the handler, lines 208-225, with the locals u: one read, one
\* push, one write and the response, with no await in between.  When the
\* file holds JSON that is no array, songs.push throws and the async handler
\* ends without a response.
SaveSong(r, u) ==
  LET rd == readJSON(songsFile)
      song == newSong(r, u)
  IN IF rd.isArray
     THEN /\ songsFile' = writeJSON(push(rd.items, song))
          /\ up' = [up EXCEPT ![r] = [u EXCEPT !.pc = "done", !.status = 200,
                                               !.body = <<song>>,
                                               !.raced = OthersAboutToSave(r)]]
     ELSE /\ songsFile' = rd.file
          /\ up' = [up EXCEPT ![r] = [u EXCEPT !.pc = "threw"]]

\* The handler without the `return` of line 100.
AfterNoFileContinues == "acquire"

\* Where the handler goes after answering 400: `return`.
AfterNoFile == "done"

\* POST /upload arrives, with a file part of the original name `name` or
\* with none: multer stages the file part, if there is one, and the handler
\* runs to its first await (lines 99-105).
UploadStartWith(r, hasFile, name) ==
  /\ up[r].pc = "idle"
  /\ LET u == [up[r] EXCEPT !.hasFile = hasFile, !.originalname = name]
     IN IF ~hasFile
        THEN /\ up' = [up EXCEPT ![r] = [u EXCEPT !.pc = AfterNoFile, !.status = 400,
                                                  !.error = "No file uploaded"]]
             /\ UNCHANGED tempFiles
        ELSE /\ up' = [up EXCEPT ![r] = [u EXCEPT !.pc = "acquire"]]
             /\ tempFiles' = tempFiles \cup {r}
  /\ UNCHANGED <<songsFile, playlistsFile, remoteObjects, publicObjects, resp>>

UploadStart(r) ==
  \E hasFile \in BOOLEAN, name \in FileNames : UploadStartWith(r, hasFile, name)

\* getDriveClient() settles (lines 104-117): on failure the handler asks for
\* the staged file's deletion, otherwise for the file's tags.
UploadAcquired(r) ==
  /\ up[r].pc = "acquire"
  /\ \E ok \in BOOLEAN :
       up' = [up EXCEPT ![r] =
                [Called(@, "getDriveClient", IF ok THEN "ok" ELSE "error")
                   EXCEPT !.pc = IF ok THEN "parse" ELSE "unlinkInit"]]
  /\ UNCHANGED <<songsFile, playlistsFile, tempFiles, remoteObjects, publicObjects, resp>>

\* The deletion asked for at line 108 settles: 500 (line 109).
UploadInitFailed(r) ==
  /\ up[r].pc = "unlinkInit"
  /\ \E ok \in BOOLEAN :
       /\ tempFiles' = unlink(tempFiles, r, ok)
       /\ up' = [up EXCEPT ![r] =
                   Respond(Called(@, "unlink", IF ok THEN "ok" ELSE "error"),
                           500, "Failed to initialize Google Drive")]
  /\ UNCHANGED <<songsFile, playlistsFile, remoteObjects, publicObjects, resp>>

\* The title of a file without a title tag (line 125).
titleFallback(originalname) == replace(originalname, extname(originalname), <<>>)

\* mm.parseFile settles (lines 115-146): the basic song data is prepared
\* and the upload to the remote store is started.
UploadParsed(r) ==
  /\ up[r].pc = "parse"
  /\ \E t \in ParseOutcomes :
       up' = [up EXCEPT ![r] =
                [Called(@, "parseFile", IF t.ok THEN "ok" ELSE "error") EXCEPT
                   !.title = OrElse(t.title, titleFallback(up[r].originalname)),
                   !.artist = OrElse(t.artist, Str_Unknown),
                   !.album = OrElse(t.album, Str_Unknown),
                   !.genre = IF t.hasGenre
                             THEN (IF t.genre = <<>> THEN Null ELSE t.genre[1])
                             ELSE Str_Unknown,
                   !.duration = t.duration,
                   !.tags = t,
                   !.pc = "create"]]
  /\ UNCHANGED <<songsFile, playlistsFile, tempFiles, remoteObjects, publicObjects, resp>>

\* drive.files.create settles (lines 142-151): the remote object exists and
\* its id is kept, and the public-read grant is asked for; or the call
\* failed and the catch block asks for the staged file's deletion.
UploadCreated(r) ==
  /\ up[r].pc = "create"
  /\ \E ok \in BOOLEAN :
       IF ok
       THEN /\ remoteObjects' = remoteObjects \cup {DriveId(r)}
            /\ up' = [up EXCEPT ![r] =
                        [Called(@, "files.create", "ok") EXCEPT
                           !.driveFileId = DriveId(r), !.pc = "grant"]]
       ELSE /\ UNCHANGED remoteObjects
            /\ up' = [up EXCEPT ![r] =
                        [Called(@, "files.create", "error") EXCEPT !.pc = "unlinkFailed"]]
  /\ UNCHANGED <<songsFile, playlistsFile, tempFiles, publicObjects, resp>>

\* drive.permissions.create settles (lines 151-165).
UploadGranted(r) ==
  /\ up[r].pc = "grant"
  /\ \E ok \in BOOLEAN :
       IF ok
       THEN /\ publicObjects' = publicObjects \cup {up[r].driveFileId}
            /\ up' = [up EXCEPT ![r] =
                        [Called(@, "permissions.create", "ok") EXCEPT !.pc = "unlink"]]
       ELSE /\ UNCHANGED publicObjects
            /\ up' = [up EXCEPT ![r] =
                        [Called(@, "permissions.create", "error") EXCEPT
                           !.pc = "unlinkFailed"]]
  /\ UNCHANGED <<songsFile, playlistsFile, tempFiles, remoteObjects, resp>>

\* The deletion asked for at line 160 settles: 500 (line 161).
UploadFailed(r) ==
  /\ up[r].pc = "unlinkFailed"
  /\ \E ok \in BOOLEAN :
       /\ tempFiles' = unlink(tempFiles, r, ok)
       /\ up' = [up EXCEPT ![r] =
                   Respond(Called(@, "unlink", IF ok THEN "ok" ELSE "error"),
                           500, "Failed to upload to Google Drive")]
  /\ UNCHANGED <<songsFile, playlistsFile, remoteObjects, publicObjects, resp>>

\* A gate that is always open.
enrichAlways(u) == TRUE

\* The condition of line 170.
enrich(u) == Truthy(u.title) /\ u.artist # Str_Unknown

\* The deletion asked for at line 165 settles (lines 165-174, or 165-225
\* when the external lookups are skipped).
UploadCleaned(r) ==
  /\ up[r].pc = "unlink"
  /\ \E ok \in BOOLEAN :
       LET u == Called(up[r], "unlink", IF ok THEN "ok" ELSE "error")
       IN /\ tempFiles' = unlink(tempFiles, r, ok)
          /\ IF enrich(u)
             THEN /\ up' = [up EXCEPT ![r] = [u EXCEPT !.pc = "mbSearch"]]
                  /\ UNCHANGED songsFile
             ELSE SaveSong(r, u)
  /\ UNCHANGED <<playlistsFile, remoteObjects, publicObjects, resp>>

\* A search that is made again when it fails.
afterSearchRetries(res) ==
  IF res = "hit" THEN "mbLookup" ELSE IF res = "error" THEN "mbSearch" ELSE "lyrics"

\* The search without the try/catch of lines 171-194.
afterSearchUncaught(res) ==
  IF res = "hit" THEN "mbLookup" ELSE IF res = "error" THEN "threw" ELSE "lyrics"

\* Where the handler goes when mbApi.search has settled: to the lookup of
\* the first recording, or, with no recording or an error (caught at line
\* 192), to the lyrics lookup.
afterSearch(res) == IF res = "hit" THEN "mbLookup" ELSE "lyrics"

\* mbApi.search settles (lines 174-199): it threw, it found no recording,
\* or the first recording is looked up.
UploadSearched(r) ==
  /\ up[r].pc = "mbSearch"
  /\ \E res \in {"error", "none", "hit"} :
       up' = [up EXCEPT ![r] =
                [Called(@, "mb.search", res) EXCEPT !.pc = afterSearch(res)]]
  /\ UNCHANGED <<songsFile, playlistsFile, tempFiles, remoteObjects, publicObjects, resp>>

\* mbApi.lookup settles (lines 180-199).
UploadLookedUp(r) ==
  /\ up[r].pc = "mbLookup"
  /\ \E res \in LookupOutcomes :
       up' = [up EXCEPT ![r] =
                [Called(@, "mb.lookup", LookupOutcome(res)) EXCEPT
                   !.albumArt = IF res.ok /\ res.releases
                                THEN CoverArtUrl(ReleaseMbid) ELSE @,
                   !.genre = IF res.ok /\ res.genres THEN MbGenre ELSE @,
                   !.pc = "lyrics"]]
  /\ UNCHANGED <<songsFile, playlistsFile, tempFiles, remoteObjects, publicObjects, resp>>

\* lrcClient.getUnsynced settles (lines 199-225): the song is saved.
UploadLyricsDone(r) ==
  /\ up[r].pc = "lyrics"
  /\ \E res \in {"error", "none", "hit"} :
       LET u == [Called(up[r], "lrc.getUnsynced", res) EXCEPT
                   !.lyrics = IF res = "hit" THEN PlainLyrics ELSE @]
       IN SaveSong(r, u)
  /\ UNCHANGED <<playlistsFile, tempFiles, remoteObjects, publicObjects, resp>>

Upload(r) ==
  \/ UploadStart(r)
  \/ UploadAcquired(r)
  \/ UploadInitFailed(r)
  \/ UploadParsed(r)
  \/ UploadCreated(r)
  \/ UploadGranted(r)
  \/ UploadFailed(r)
  \/ UploadCleaned(r)
  \/ UploadSearched(r)
  \/ UploadLookedUp(r)
  \/ UploadLyricsDone(r)

\* ------------------------------------------------- the other endpoints
\* The last response of an endpoint other than POST /upload, with the
\* request it answers: the JSON body (songs or playlists; isArray is FALSE
\* when the body is JSON that is no array), the handle whose bytes are
\* relayed, the external calls the handler made, the backing file the handler
\* read first, whether that read wrote the file, and whether the answer
\* before this one was that of a read-only endpoint whose read wrote the same
\* file.  A status of
\* 0 is a handler that threw without answering.  relay: how the relaying of
\* the remote bytes, once begun, went for this handler ("" when none began).
NoResponse ==
  [op |-> "none", arg1 |-> Null, arg2 |-> Null, status |-> 0, error |-> "",
   isArray |-> TRUE, songs |-> <<>>, playlists |-> <<>>, stream |-> Null,
   calls |-> <<>>, file |-> "", wrote |-> FALSE, reread |-> FALSE, relay |-> ""]

Answer(op, arg1, arg2, status, error) ==
  [NoResponse EXCEPT !.op = op, !.arg1 = arg1, !.arg2 = arg2, !.status = status,
                     !.error = error]

\* The endpoints that write no backing file but through readJSON.
ReadOnly == {"songs", "search", "stream", "playlists", "playlist"}

\* The answer `a` of a handler whose first statement is the read `rd` of `file`.
AfterRead(a, file, rd) ==
  [a EXCEPT !.file = file, !.wrote = rd.wrote,
            !.reread = (resp.file = file /\ resp.wrote /\ resp.op \in ReadOnly)]

\* A find whose predicate holds of every record.
FindFirst(items, id) == IF items = <<>> THEN 0 ELSE 1

\* Array.prototype.find on records with an id: the index of the first record
\* whose id is `id`, 0 when there is none.
FindById(items, id) ==
  LET hits == {i \in 1..Len(items) : items[i].id = id}
  IN IF hits = {} THEN 0 ELSE CHOOSE i \in hits : \A j \in hits : i <= j

\* GET /songs (lines 229-232).
GetSongs ==
  LET rd == readJSON(songsFile)
  IN /\ songsFile' = rd.file
     /\ resp' = [AfterRead(Answer("songs", Null, Null, 200, ""), "songs.json", rd) EXCEPT
                   !.isArray = rd.isArray, !.songs = rd.items]
     /\ UNCHANGED <<playlistsFile, tempFiles, remoteObjects, publicObjects, up>>

\* A filter that looks at the title alone.
matchesTitleOnly(s, q) == includes(toLowerCase(s.title), q)

\* The predicate of the filter at line 276.
matches(s, q) == includes(toLowerCase(s.title), q) \/ includes(toLowerCase(s.artist), q)

\* Array.prototype.filter with that predicate.
filterMatches(items, q) == SelectSeq(items, LAMBDA s : matches(s, q))

\* The values of the query parameter q; Null is a request without one.
Queries == {Null, <<>>, <<"A">>, <<"U">>}

\* GET /search (lines 273-278).  songs.filter throws when the file holds
\* JSON that is no array, and Express answers 500.
Search(rawq) ==
  LET q == toLowerCase(OrElse(rawq, <<>>))
      rd == readJSON(songsFile)
      a == AfterRead(Answer("search", rawq, Null, 0, ""), "songs.json", rd)
  IN /\ songsFile' = rd.file
     /\ resp' = IF rd.isArray
                THEN [a EXCEPT !.status = 200, !.songs = filterMatches(rd.items, q)]
                ELSE [a EXCEPT !.status = 500, !.error = "TypeError"]
     /\ UNCHANGED <<playlistsFile, tempFiles, remoteObjects, publicObjects, up>>

\* What the remote store does for one GET /stream/:id: getDriveClient()
\* fails, drive.files.get fails, or both succeed and the remote stream is
\* piped into the response (line 265).  The stream then ends, or it fails
\* after the first bytes and emits 'error'.  The handler listens for no
\* 'error' and its try block is over by then: if a listener of the client
\* library takes the event the response is never ended, and if none does the
\* event is thrown as an uncaught exception.  The end of the process that
\* follows such an exception is recorded in the response alone: the other
\* handlers go on in the model, which adds behaviours and removes none.
StorageOutcomes == {"initError", "fetchError", "ok", "breakUnheard", "breakUncaught"}

\* What becomes of the relaying under each of the outcomes that begin it:
\* the response is ended with the stream ("complete"), is left open for ever
\* ("hung"), or is cut by the death of the process ("uncaught").
relay(storage) ==
  CASE storage = "ok" -> "complete"
    [] storage = "breakUnheard" -> "hung"
    [] storage = "breakUncaught" -> "uncaught"
    [] OTHER -> ""

\* The handler with the Remote Storage client acquired before the lookups.
StreamAcquiresFirst(id, storage) ==
  LET rd == readJSON(songsFile)
      i == FindById(rd.items, id)
      a == AfterRead(Answer("stream", id, Null, 0, ""), "songs.json", rd)
  IN /\ songsFile' = rd.file
     /\ resp' =
          IF ~rd.isArray THEN [a EXCEPT !.error = "TypeError"]
          ELSE IF storage = "initError"
            THEN [a EXCEPT !.status = 500, !.error = "Failed to initialize Google Drive",
                           !.calls = <<"getDriveClient">>]
          ELSE IF i = 0
            THEN [a EXCEPT !.status = 404, !.error = "Song not found",
                           !.calls = <<"getDriveClient">>]
          ELSE IF ~Truthy(rd.items[i].driveFileId)
            THEN [a EXCEPT !.status = 404, !.error = "Audio file not found",
                           !.calls = <<"getDriveClient">>]
          ELSE IF storage = "fetchError"
            THEN [a EXCEPT !.status = 500, !.error = "Failed to stream audio",
                           !.calls = <<"getDriveClient", "files.get">>]
          ELSE [a EXCEPT !.status = 200, !.stream = rd.items[i].driveFileId,
                         !.calls = <<"getDriveClient", "files.get">>,
                         !.relay = relay(storage)]
     /\ UNCHANGED <<playlistsFile, tempFiles, remoteObjects, publicObjects, up>>

\* GET /stream/:id (lines 235-270).  After its first statement the handler
\* reads and writes nothing the other handlers share, so its awaits are
\* folded into one step.  songs.find throws when the file holds JSON that is
\* no array, and the async handler ends without a response.
StreamWith(id, storage) ==
  LET rd == readJSON(songsFile)
      i == FindById(rd.items, id)
      a == AfterRead(Answer("stream", id, Null, 0, ""), "songs.json", rd)
  IN /\ songsFile' = rd.file
     /\ resp' =
          IF ~rd.isArray THEN [a EXCEPT !.error = "TypeError"]
          ELSE IF i = 0 THEN [a EXCEPT !.status = 404, !.error = "Song not found"]
          ELSE IF ~Truthy(rd.items[i].driveFileId)
            THEN [a EXCEPT !.status = 404, !.error = "Audio file not found"]
          ELSE IF storage = "initError"
            THEN [a EXCEPT !.status = 500, !.error = "Failed to initialize Google Drive",
                           !.calls = <<"getDriveClient">>]
          ELSE IF storage = "fetchError"
            THEN [a EXCEPT !.status = 500, !.error = "Failed to stream audio",
                           !.calls = <<"getDriveClient", "files.get">>]
          ELSE [a EXCEPT !.status = 200, !.stream = rd.items[i].driveFileId,
                         !.calls = <<"getDriveClient", "files.get">>,
                         !.relay = relay(storage)]
     /\ UNCHANGED <<playlistsFile, tempFiles, remoteObjects, publicObjects, up>>

\* The ids a request may name: the ids of the songs and one that no song has.
LegacyId == <<"S", "0">>
UnknownId == <<"S", "x">>
SongIds == {SongId(r) : r \in Reqs} \cup {LegacyId, UnknownId}

Stream(id) == \E storage \in StorageOutcomes : StreamWith(id, storage)

\* GET /playlist (lines 281-284).
GetPlaylists ==
  LET rd == readJSON(playlistsFile)
  IN /\ playlistsFile' = rd.file
     /\ resp' = [AfterRead(Answer("playlists", Null, Null, 200, ""), "playlists.json", rd)
                   EXCEPT !.isArray = rd.isArray, !.playlists = rd.items]
     /\ UNCHANGED <<songsFile, tempFiles, remoteObjects, publicObjects, up>>

\* uuidv4() for the n-th playlist of the collection.
PlaylistId(n) == <<"P", ToString(n)>>
UnknownPlaylistId == <<"P", "x">>
PlaylistIds == {PlaylistId(n) : n \in 1..MaxPlaylists} \cup {UnknownPlaylistId}

\* The values of the body's name; Null is a body without one.
PlaylistNames == {Null, <<>>, <<"m", "i", "x">>}

\* POST /playlist (lines 287-296).  playlists.push throws when the file
\* holds JSON that is no array, and Express answers 500.
CreatePlaylist(name) ==
  LET rd == readJSON(playlistsFile)
      newPlaylist == [id |-> PlaylistId(Len(rd.items) + 1), name |-> name, songs |-> <<>>]
      a == AfterRead(Answer("createPlaylist", name, Null, 0, ""), "playlists.json", rd)
  IN /\ IF ~Truthy(name)
        THEN /\ resp' = Answer("createPlaylist", name, Null, 400, "Playlist name required")
             /\ UNCHANGED playlistsFile
        ELSE IF ~rd.isArray
        THEN /\ resp' = [a EXCEPT !.status = 500, !.error = "TypeError"]
             /\ playlistsFile' = rd.file
        ELSE /\ Len(rd.items) < MaxPlaylists
             /\ playlistsFile' = writeJSON(push(rd.items, newPlaylist))
             /\ resp' = [a EXCEPT !.status = 200, !.playlists = <<newPlaylist>>]
     /\ UNCHANGED <<songsFile, tempFiles, remoteObjects, publicObjects, up>>

\* JSON.parse builds new objects on every call.  The object parsed from
\* songs.json for the s-th song, and the one parsed from playlists.json for
\* the j-th song of the p-th playlist.
SongObject(s) == [file |-> "songs.json", path |-> <<s>>]
PlaylistSongObject(p, j) == [file |-> "playlists.json", path |-> <<p, j>>]

\* playlist.songs.includes(song): Array.prototype.includes compares objects
\* by identity.
playlistIncludes(playlist, p, s) ==
  \E j \in 1..Len(playlist.songs) : PlaylistSongObject(p, j) = SongObject(s)

\* PUT /playlist/:id/add (lines 299-312).
AddToPlaylist(pid, songId) ==
  LET rdP == readJSON(playlistsFile)
      p == FindById(rdP.items, pid)
      rdS == readJSON(songsFile)
      s == FindById(rdS.items, songId)
      a == AfterRead(Answer("add", pid, songId, 0, ""), "playlists.json", rdP)
  IN /\ IF ~rdP.isArray
        THEN /\ resp' = [a EXCEPT !.status = 500, !.error = "TypeError"]
             /\ playlistsFile' = rdP.file
             /\ UNCHANGED songsFile
        ELSE IF p = 0
        THEN /\ resp' = [a EXCEPT !.status = 404, !.error = "Playlist not found"]
             /\ playlistsFile' = rdP.file
             /\ UNCHANGED songsFile
        ELSE IF ~rdS.isArray
        THEN /\ resp' = [a EXCEPT !.status = 500, !.error = "TypeError"]
             /\ playlistsFile' = rdP.file
             /\ songsFile' = rdS.file
        ELSE IF s = 0
        THEN /\ resp' = [a EXCEPT !.status = 404, !.error = "Song not found"]
             /\ playlistsFile' = rdP.file
             /\ songsFile' = rdS.file
        ELSE LET playlist == rdP.items[p]
                 added == IF playlistIncludes(playlist, p, s)
                          THEN playlist
                          ELSE [playlist EXCEPT !.songs = push(@, rdS.items[s])]
             IN /\ Len(added.songs) <= MaxPlaylistLen
                /\ playlistsFile' = writeJSON([rdP.items EXCEPT ![p] = added])
                /\ songsFile' = rdS.file
                /\ resp' = [a EXCEPT !.status = 200, !.playlists = <<added>>]
     /\ UNCHANGED <<tempFiles, remoteObjects, publicObjects, up>>

\* GET /playlist/:id (lines 315-320).
GetPlaylist(pid) ==
  LET rd == readJSON(playlistsFile)
      p == FindById(rd.items, pid)
      a == AfterRead(Answer("playlist", pid, Null, 0, ""), "playlists.json", rd)
  IN /\ playlistsFile' = rd.file
     /\ resp' = IF ~rd.isArray THEN [a EXCEPT !.status = 500, !.error = "TypeError"]
                ELSE IF p = 0 THEN [a EXCEPT !.status = 404, !.error = "Playlist not found"]
                ELSE [a EXCEPT !.status = 200, !.playlists = <<rd.items[p]>>]
     /\ UNCHANGED <<songsFile, tempFiles, remoteObjects, publicObjects, up>>

\* ----------------------------------------------------------- specifications
\* A song of an earlier version of the catalog: it has no remote-storage
\* handle.
LegacySong ==
  [id |-> LegacyId, title |-> <<"a", "U">>, artist |-> <<"b">>, album |-> Str_Unknown,
   genre |-> Str_Unknown, duration |-> 0, albumArt |-> Null, lyrics |-> Null,
   driveFileId |-> Null]

\* The song request r saves when the file's tags are t, the remote upload
\* succeeds and no external lookup is made or answers.
UploadedSong(r, t) ==
  newSong(r, [IdleRequest EXCEPT
                !.title = OrElse(t.title, titleFallback(<<"a", ".", "m">>)),
                !.artist = OrElse(t.artist, Str_Unknown),
                !.album = OrElse(t.album, Str_Unknown),
                !.genre = IF t.hasGenre
                          THEN (IF t.genre = <<>> THEN Null ELSE t.genre[1])
                          ELSE Str_Unknown,
                !.duration = t.duration,
                !.driveFileId = DriveId(r)])

NoRequests ==
  /\ tempFiles = {}
  /\ remoteObjects = {}
  /\ publicObjects = {}
  /\ up = [r \in Reqs |-> IdleRequest]
  /\ resp = NoResponse

\* The ingestion pipeline and the streaming proxy, from the server's first
\* start: no backing file yet, no request in flight.
Init ==
  /\ songsFile = Absent
  /\ playlistsFile = Absent
  /\ NoRequests

Next ==
  \/ \E r \in Reqs : Upload(r)
  \/ \E r \in Reqs : Stream(SongId(r))

Spec == Init /\ [][Next]_vars

\* The catalog endpoints over the collections earlier uploads left.
StoredSongs ==
  {<<>>, <<LegacySong>>, <<UploadedSong(1, ParsedFull)>>,
   <<UploadedSong(1, ParsedFull), LegacySong>>,
   <<UploadedSong(1, ParsedFull), UploadedSong(2, ParsedNoTags)>>,
   <<UploadedSong(1, ParsedTitleOnly), UploadedSong(2, ParsedFull)>>}

InitCatalog ==
  /\ songsFile \in {Arr(c) : c \in StoredSongs}
  /\ playlistsFile = Absent
  /\ NoRequests

NextCatalog ==
  \/ GetSongs
  \/ \E q \in Queries : Search(q)
  \/ \E id \in SongIds : Stream(id)
  \/ GetPlaylists
  \/ \E name \in PlaylistNames : CreatePlaylist(name)
  \/ \E pid \in PlaylistIds, sid \in SongIds : AddToPlaylist(pid, sid)
  \/ \E pid \in PlaylistIds : GetPlaylist(pid)

SpecCatalog == InitCatalog /\ [][NextCatalog]_vars

\* The same endpoints over every kind of content of the two backing files.
FileContents ==
  {Absent, Blank, Unparseable, NonArray, Arr(<<>>), Arr(<<LegacySong>>)}

InitStore ==
  /\ songsFile \in FileContents
  /\ playlistsFile \in {Absent, Blank, Unparseable, NonArray, Arr(<<>>)}
  /\ NoRequests

SpecStore == InitStore /\ [][NextCatalog]_vars

\* A step of request r after its arrival: an awaited call of the handler
\* settles and the handler runs to its next await or to its end.
UploadContinues(r) == up[r].pc # "idle" /\ Upload(r)

\* The ingestion pipeline alone, from the server's first start: uploads
\* interleave at their awaits, every awaited call settles, and Node runs the
\* continuation of a settled call.
NextUploads == \E r \in Reqs : Upload(r)

SpecUploads ==
  Init /\ [][NextUploads]_vars /\ \A r \in Reqs : WF_vars(UploadContinues(r))

\* Every endpoint together: one upload among the requests to the other
\* endpoints, over the collection an earlier upload left or none.
InitAll ==
  /\ \E stored \in BOOLEAN :
       /\ songsFile = IF stored THEN Arr(<<UploadedSong(2, ParsedFull)>>) ELSE Absent
       /\ remoteObjects = IF stored THEN {DriveId(2)} ELSE {}
       /\ publicObjects = remoteObjects
  /\ playlistsFile = Absent
  /\ tempFiles = {}
  /\ up = [r \in Reqs |-> IdleRequest]
  /\ resp = NoResponse

NextAll ==
  \/ Upload(1)
  \/ NextCatalog

SpecAll == InitAll /\ [][NextAll]_vars

\* The original names of length 1 to MaxNameLen written with a letter, an
\* "m" and a dot.
NameChars == {"a", "m", "."}

OriginalNames == UNION {[1..n -> NameChars] : n \in 1..MaxNameLen}

\* The first stages of one upload, for every such name of the file: the
\* upload arrives, the Remote Storage client is acquired, the tags are parsed
\* and the basic song data prepared.
NextNames ==
  \/ \E name \in OriginalNames : UploadStartWith(1, TRUE, name)
  \/ UploadAcquired(1)
  \/ UploadParsed(1)

SpecNames == Init /\ [][NextNames]_vars

\* ------------------------------------------------------------------ claims
\* The song collection as a read finds it.
Collection == readJSON(songsFile).items

\* The records of the collection that request r created.
RecordsOf(r) == {i \in 1..Len(Collection) : Collection[i].id = SongId(r)}

Made(u, name, outcome) == \E i \in 1..Len(u.calls) : u.calls[i] = <<name, outcome>>

Attempts(u, name) == Cardinality({i \in 1..Len(u.calls) : u.calls[i][1] = name})

\* Acquiring the Remote Storage client failed, or the remote upload stage did.
StorageFailed(u) ==
  \/ Made(u, "getDriveClient", "error")
  \/ Made(u, "files.create", "error")
  \/ Made(u, "permissions.create", "error")

\* C1, as stated: an upload that staged a file and failed to acquire the
\* Remote Storage client, or failed in the remote upload stage, has ended
\* with 500, has created no record, and its staged file no longer exists.
C1_FailedUploadLeavesNoFile ==
  \A r \in Reqs :
    (up[r].pc = "done" /\ StorageFailed(up[r])) =>
      /\ up[r].status = 500
      /\ RecordsOf(r) = {}
      /\ r \notin tempFiles

\* C1, amended: such an upload has ended with 500, has created no record,
\* and has asked exactly once for the deletion of its staged file; the file
\* no longer exists unless that deletion itself failed.
C1_FailedUploadDeletesOnce ==
  \A r \in Reqs :
    /\ StorageFailed(up[r]) => up[r].status \in {0, 500} /\ RecordsOf(r) = {}
    /\ (up[r].pc = "done" /\ StorageFailed(up[r])) =>
         /\ up[r].status = 500
         /\ Attempts(up[r], "unlink") = 1
         /\ r \in tempFiles <=> Made(up[r], "unlink", "error")

C1_Witness ==
  \E r \in Reqs :
    /\ up[r].status = 500
    /\ Made(up[r], "permissions.create", "error")
    /\ r \notin tempFiles

\* C2: an upload without a file part is answered 400 and does nothing else:
\* it stages no file, calls no external service, creates no remote object
\* and no record, and is over.
C2_NoFileNothingRuns ==
  \A r \in Reqs :
    /\ (up[r].pc # "idle" /\ ~up[r].hasFile) => up[r].status = 400
    /\ up[r].status = 400 =>
         /\ ~up[r].hasFile
         /\ up[r].pc = "done"
         /\ up[r].calls = <<>>
         /\ RecordsOf(r) = {}
         /\ DriveId(r) \notin remoteObjects
         /\ r \notin tempFiles

C2_Witness == \E r \in Reqs : up[r].status = 400 /\ \E o \in Reqs : up[o].status = 200

\* The remote upload stage of the request succeeded: the object was created
\* and made publicly readable.
UploadStageOk(u) == Made(u, "permissions.create", "ok")

\* C3: once storage acquisition and the remote upload stage have succeeded,
\* the request is never answered with an error and never ends without an
\* answer; when it is over, it has answered 200 with the one record it
\* appended, whatever tag extraction, the two lookups and the deletion of
\* the staged file did, and what those did not deliver has its default
\* (artist, album, genre "Unknown", duration 0) or is unset.
C3_BestEffortNeverAborts ==
  \A r \in Reqs :
    LET u == up[r] IN
    UploadStageOk(u) =>
      /\ u.status \in {0, 200}
      /\ u.pc # "threw"
      /\ u.pc = "done" =>
           /\ u.status = 200
           /\ Cardinality(RecordsOf(r)) = 1
           /\ \A i \in RecordsOf(r) : u.body = <<Collection[i]>>
           /\ LET song == u.body[1] IN
              /\ ~Truthy(u.tags.artist) => song.artist = Str_Unknown
              /\ ~Truthy(u.tags.album) => song.album = Str_Unknown
              /\ (~u.tags.hasGenre /\ ~Made(u, "mb.lookup", "genres")
                    /\ ~Made(u, "mb.lookup", "releases+genres"))
                   => song.genre = Str_Unknown
              /\ ~u.tags.ok => song.duration = 0
              /\ (~Made(u, "mb.lookup", "releases")
                    /\ ~Made(u, "mb.lookup", "releases+genres"))
                   => song.albumArt = Null
              /\ ~Made(u, "lrc.getUnsynced", "hit") => song.lyrics = Null

C3_Witness ==
  \E r \in Reqs :
    /\ up[r].status = 200
    /\ Made(up[r], "unlink", "error")
    /\ Made(up[r], "mb.search", "error")
    /\ Made(up[r], "lrc.getUnsynced", "error")
    /\ \E o \in Reqs : up[o].status = 200 /\ Made(up[o], "parseFile", "error")

\* C4: the record of a successful upload has a non-empty remote-storage
\* handle, that of an object of the remote store; with storage available,
\* GET /stream/:id on its id relays that object, leaves both backing files
\* as they are, and answers a repeated request as it answered the one before.
C4_UploadedSongStreams ==
  /\ [](\A r \in Reqs :
          up[r].status = 200 =>
            /\ Truthy(up[r].body[1].driveFileId)
            /\ up[r].body[1].driveFileId \in remoteObjects)
  /\ [][\A r \in Reqs :
          (up[r].status = 200 /\ StreamWith(SongId(r), "ok")) =>
            /\ resp'.status = 200
            /\ resp'.stream = up[r].body[1].driveFileId
            /\ songsFile' = songsFile
            /\ playlistsFile' = playlistsFile
            /\ (resp.op = "stream" /\ resp.arg1 = SongId(r) /\ resp.status = 200) =>
                 (resp'.stream = resp.stream /\ resp'.calls = resp.calls)]_vars

C4_Witness ==
  /\ resp.op = "stream"
  /\ resp.status = 200
  /\ \E r \in Reqs :
       /\ up[r].status = 200
       /\ resp.arg1 = SongId(r)
       /\ resp.stream = up[r].body[1].driveFileId

\* C10, as stated: two uploads that finish at nearly the same time overwrite
\* one another's record: when both have answered 200 and one saved its song
\* while the other was about to save its own, the collection holds only one
\* of the two new records.
C10_LostUpdate ==
  (/\ \A r \in Reqs : up[r].status = 200
   /\ \E r \in Reqs : up[r].raced)
    => \E r \in Reqs : RecordsOf(r) = {}

\* C10, amended: the read, push and write of step 4 run without an await,
\* so no other handler runs between them: every upload that has answered 200
\* has its record in the collection, whichever way the uploads interleave.
C10_NoLostUpdate ==
  \A r \in Reqs :
    up[r].status = 200 =>
      \E i \in 1..Len(Collection) : Collection[i] = up[r].body[1]

C10_Witness ==
  /\ \A r \in Reqs : up[r].status = 200 /\ RecordsOf(r) # {}
  /\ \E r \in Reqs : up[r].raced

\* The indices of the records of the collection whose id is `id`.
WithId(id) == {i \in 1..Len(Collection) : Collection[i].id = id}

\* C5: GET /stream/:id answers 404 "Song not found" for an id no record
\* has and 404 "Audio file not found" for an id whose record has no
\* remote-storage handle, whether or not storage is available, without
\* acquiring the Remote Storage client and without a remote fetch.
C5_NotFoundBeforeStorage ==
  [][\A id \in SongIds, storage \in StorageOutcomes :
       StreamWith(id, storage) =>
         /\ WithId(id) = {} =>
              /\ resp'.status = 404
              /\ resp'.error = "Song not found"
              /\ resp'.calls = <<>>
         /\ (WithId(id) # {} /\ \A i \in WithId(id) : ~Truthy(Collection[i].driveFileId)) =>
              /\ resp'.status = 404
              /\ resp'.error = "Audio file not found"
              /\ resp'.calls = <<>>]_vars

C5_Witness ==
  /\ resp.op = "stream"
  /\ resp.status = 404
  /\ resp.error = "Audio file not found"
  /\ resp.arg1 = LegacyId
  /\ resp.calls = <<>>

\* C6: a Catalog Store read returns a collection whatever the backing file
\* holds: GET /songs and GET /playlist, which answer with what the read
\* returned, answer with a JSON array.
C6_ReadReturnsCollection ==
  resp.op \in {"songs", "playlists"} => resp.status = 200 /\ resp.isArray

\* The file is missing, empty, or holds text that is not JSON.
Corrupt(content) == content.kind \in {"absent", "blank", "unparseable"}

\* C7: a read of a missing, empty or unparseable backing file returns the
\* empty collection and rewrites the file as an empty collection; the next
\* read of that file returns the empty collection again and writes nothing.
C7_RecoveryIsIdempotent ==
  [][/\ (GetSongs /\ Corrupt(songsFile)) =>
          /\ resp'.isArray /\ resp'.songs = <<>>
          /\ resp'.wrote
          /\ songsFile' = Arr(<<>>)
     /\ (GetSongs /\ resp.file = "songs.json" /\ resp.wrote /\ resp.op \in ReadOnly) =>
          /\ resp'.isArray /\ resp'.songs = <<>>
          /\ ~resp'.wrote
          /\ songsFile' = songsFile
     /\ (GetPlaylists /\ Corrupt(playlistsFile)) =>
          /\ resp'.isArray /\ resp'.playlists = <<>>
          /\ resp'.wrote
          /\ playlistsFile' = Arr(<<>>)
     /\ (GetPlaylists /\ resp.file = "playlists.json" /\ resp.wrote
           /\ resp.op \in ReadOnly) =>
          /\ resp'.isArray /\ resp'.playlists = <<>>
          /\ ~resp'.wrote
          /\ playlistsFile' = playlistsFile]_vars

C7_Witness ==
  /\ resp.op = "songs"
  /\ resp.reread
  /\ ~resp.wrote
  /\ resp.songs = <<>>
  /\ songsFile = Arr(<<>>)

\* The playlists as a read finds them.
Playlists == readJSON(playlistsFile).items

\* C8: no playlist holds two entries with the same song id.
C8_NoDuplicateEntries ==
  \A p \in 1..Len(Playlists) :
    \A i, j \in 1..Len(Playlists[p].songs) :
      Playlists[p].songs[i].id = Playlists[p].songs[j].id => i = j

\* Two characters are the same letter, whatever their case.
SameLetter(a, b) ==
  \/ a = b
  \/ <<a, b>> \in {<<"a", "A">>, <<"A", "a">>, <<"b", "B">>, <<"B", "b">>,
                   <<"u", "U">>, <<"U", "u">>}

\* `q` occurs in `s` when case is ignored.
ContainsIgnoringCase(s, q) ==
  \E k \in 0..(Len(s) - Len(q)) : \A j \in 1..Len(q) : SameLetter(s[k + j], q[j])

\* The songs of `items` that the search for `q` is to return, in the order
\* of `items`: with `n` of them before position `i`, a sequence of the songs
\* up to `i`.
RECURSIVE Selected(_, _, _)
Selected(items, q, i) ==
  IF i = 0 THEN <<>>
  ELSE IF \/ ContainsIgnoringCase(items[i].title, q)
          \/ ContainsIgnoringCase(items[i].artist, q)
       THEN Append(Selected(items, q, i - 1), items[i])
       ELSE Selected(items, q, i - 1)

\* C9: GET /search answers with the songs of the collection, in the
\* collection's order, whose title or artist contains q when case is
\* ignored, and with every song when q is absent or empty.
C9_SearchReturnsMatches ==
  [][\A q \in Queries :
       Search(q) =>
         /\ resp'.status = 200
         /\ resp'.songs = Selected(Collection, IF q = Null THEN <<>> ELSE q, Len(Collection))
         /\ q \in {Null, <<>>} => resp'.songs = Collection]_vars

C9_Witness ==
  /\ resp.op = "search"
  /\ resp.arg1 = <<"U">>
  /\ Len(resp.songs) = 1
  /\ Len(Collection) = 2
  /\ resp.songs[1] = Collection[2]
  /\ ~ContainsIgnoringCase(resp.songs[1].title, <<"U">>)

\* The request is past the cleanup step of the success path, or has answered
\* after staging a file.
PastCleanup(u) ==
  \/ u.pc \in {"mbSearch", "mbLookup", "lyrics"}
  \/ u.pc \in {"done", "threw"} /\ u.hasFile

\* C11, as stated: on every exit path after a file was staged, the staged
\* file no longer exists when the response is sent, and on the success path
\* it is gone before any enrichment lookup or catalog write begins.
C11_StagedFileNeverSurvives ==
  \A r \in Reqs : PastCleanup(up[r]) => r \notin tempFiles

\* C11, amended: on every such path the deletion of the staged file has been
\* asked for exactly once and has settled before the response is sent, and on
\* the success path before any enrichment lookup or catalog write begins; the
\* file no longer exists unless that deletion failed.  Before the cleanup
\* step no lookup has been made and no record written.
C11_CleanupSettlesFirst ==
  \A r \in Reqs :
    LET u == up[r] IN
    /\ PastCleanup(u) =>
         /\ Attempts(u, "unlink") = 1
         /\ r \in tempFiles <=> Made(u, "unlink", "error")
    /\ Attempts(u, "unlink") = 0 =>
         /\ Attempts(u, "mb.search") = 0
         /\ Attempts(u, "mb.lookup") = 0
         /\ Attempts(u, "lrc.getUnsynced") = 0
         /\ RecordsOf(r) = {}
         /\ u.hasFile /\ u.pc # "idle" => r \in tempFiles

C11_Witness ==
  \E r \in Reqs :
    /\ up[r].pc = "mbLookup"
    /\ Made(up[r], "unlink", "ok")
    /\ r \notin tempFiles
    /\ \E o \in Reqs : up[o].status = 500 /\ o \notin tempFiles /\ up[o].hasFile

\* The number of times the handler of the last response called `name`.
Fetches(name) == Cardinality({i \in 1..Len(resp.calls) : resp.calls[i] = name})

\* The remote stream of the last GET /stream/:id failed after relaying began.
BrokeMidStream == resp.op = "stream" /\ resp.relay \notin {"", "complete"}

\* C12: a failure of the remote stream after relaying has begun is reported
\* once as StreamingFailed ("Failed to stream audio"), the remote fetch is
\* made once, and the request ends: it neither hangs nor brings the process
\* down.
C12_MidStreamFailureReported ==
  BrokeMidStream =>
    /\ resp.error = "Failed to stream audio"
    /\ Fetches("files.get") = 1
    /\ resp.relay \notin {"hung", "uncaught"}

\* The place of each external call in the order of the stages.
StageOf(name) ==
  CASE name = "getDriveClient" -> 1
    [] name = "parseFile" -> 2
    [] name = "files.create" -> 3
    [] name = "permissions.create" -> 4
    [] name = "unlink" -> 5
    [] name = "mb.search" -> 6
    [] name = "mb.lookup" -> 7
    [] name = "lrc.getUnsynced" -> 8

\* C13: within one upload the external calls are made in the order of the
\* stages and each at most once; a stage is entered only when the one before
\* it has done its work; the record is appended only after the remote object
\* was created and made publicly readable and after every lookup; and the
\* lyrics lookup follows the album-art/genre lookup whatever that one did.
C13_StagesInOrderOnce ==
  \A r \in Reqs :
    LET u == up[r] IN
    /\ \A i, j \in 1..Len(u.calls) :
         i < j => StageOf(u.calls[i][1]) < StageOf(u.calls[j][1])
    /\ Attempts(u, "parseFile") = 1 => Made(u, "getDriveClient", "ok")
    /\ Attempts(u, "files.create") = 1 => Attempts(u, "parseFile") = 1
    /\ Attempts(u, "permissions.create") = 1 => Made(u, "files.create", "ok")
    /\ Attempts(u, "mb.search") = 1 =>
         Made(u, "permissions.create", "ok") /\ Attempts(u, "unlink") = 1
    /\ Attempts(u, "mb.lookup") = 1 => Made(u, "mb.search", "hit")
    /\ Attempts(u, "lrc.getUnsynced") = 1 => Attempts(u, "mb.search") = 1
    /\ RecordsOf(r) # {} =>
         /\ u.pc = "done"
         /\ Made(u, "files.create", "ok")
         /\ Made(u, "permissions.create", "ok")
         /\ DriveId(r) \in publicObjects
         /\ Attempts(u, "unlink") = 1
         /\ Attempts(u, "mb.search") = 1 => Attempts(u, "lrc.getUnsynced") = 1
         /\ Made(u, "mb.search", "hit") => Attempts(u, "mb.lookup") = 1

C13_Witness ==
  \E r \in Reqs :
    /\ RecordsOf(r) # {}
    /\ Len(up[r].calls) = 8
    /\ Made(up[r], "mb.lookup", "error")
    /\ \E o \in Reqs :
         RecordsOf(o) # {} /\ Made(up[o], "mb.search", "error") /\ Len(up[o].calls) = 7

\* The genre the file's own tags give, or the default.
LocalGenre(t) ==
  IF t.hasGenre THEN (IF t.genre = <<>> THEN Null ELSE t.genre[1]) ELSE Str_Unknown

LookupGave(u, what) ==
  Made(u, "mb.lookup", what) \/ Made(u, "mb.lookup", "releases+genres")

\* C14: a lookup is made only for a request whose title is not empty and
\* whose artist is not "Unknown"; the record of a request without them has no
\* album art and no lyrics and keeps the genre of the file's tags or the
\* default; and a lookup that yields nothing leaves its own field unset and
\* the other lookup's field as that lookup set it.
C14_EnrichmentIsGated ==
  \A r \in Reqs :
    LET u == up[r]
        gated == ~Truthy(u.title) \/ u.artist = Str_Unknown
    IN
    /\ (u.pc \notin {"idle", "acquire", "unlinkInit", "parse"} /\ gated) =>
         /\ Attempts(u, "mb.search") = 0
         /\ Attempts(u, "mb.lookup") = 0
         /\ Attempts(u, "lrc.getUnsynced") = 0
    /\ u.status = 200 =>
         LET song == u.body[1] IN
         /\ gated =>
              /\ song.albumArt = Null
              /\ song.lyrics = Null
              /\ song.genre = LocalGenre(u.tags)
         /\ ~gated => Attempts(u, "mb.search") = 1 /\ Attempts(u, "lrc.getUnsynced") = 1
         /\ song.albumArt = IF LookupGave(u, "releases")
                            THEN CoverArtUrl(ReleaseMbid) ELSE Null
         /\ song.genre = IF LookupGave(u, "genres") THEN MbGenre ELSE LocalGenre(u.tags)
         /\ song.lyrics = IF Made(u, "lrc.getUnsynced", "hit") THEN PlainLyrics ELSE Null

C14_Witness ==
  /\ \E r \in Reqs :
       /\ up[r].status = 200
       /\ up[r].artist = Str_Unknown
       /\ up[r].tags = ParsedTitleOnly
       /\ up[r].body[1].lyrics = Null
  /\ \E r \in Reqs :
       /\ up[r].status = 200
       /\ Made(up[r], "lrc.getUnsynced", "none")
       /\ up[r].body[1].lyrics = Null
       /\ up[r].body[1].albumArt # Null

\* The playlist ids and the song ids that the collections hold.
KnownPlaylist(pid) == \E p \in 1..Len(Playlists) : Playlists[p].id = pid

BothCollectionsKept == Collection' = Collection /\ Playlists' = Playlists

\* C15: POST /playlist without a name or with an empty one answers 400,
\* PUT /playlist/:id/add answers 404 "Playlist not found" for an unknown
\* playlist id (also when the song id is unknown too) and 404 "Song not
\* found" for a known playlist and an unknown song id, GET /playlist/:id
\* answers 404 for an unknown id; each leaves the song collection and the
\* playlist collection as they were.
C15_RejectedLeavesCollections ==
  [][/\ \A name \in {Null, <<>>} :
          CreatePlaylist(name) => resp'.status = 400 /\ BothCollectionsKept
     /\ \A pid \in PlaylistIds, sid \in SongIds :
          AddToPlaylist(pid, sid) =>
            /\ ~KnownPlaylist(pid) =>
                 /\ resp'.status = 404
                 /\ resp'.error = "Playlist not found"
                 /\ BothCollectionsKept
            /\ (KnownPlaylist(pid) /\ WithId(sid) = {}) =>
                 /\ resp'.status = 404
                 /\ resp'.error = "Song not found"
                 /\ BothCollectionsKept
     /\ \A pid \in PlaylistIds :
          (GetPlaylist(pid) /\ ~KnownPlaylist(pid)) =>
            /\ resp'.status = 404
            /\ resp'.error = "Playlist not found"
            /\ BothCollectionsKept
     /\ resp'.status \in {400, 404} => BothCollectionsKept]_vars

C15_Witness ==
  /\ resp.op = "add"
  /\ resp.arg1 = UnknownPlaylistId
  /\ resp.arg2 = UnknownId
  /\ resp.error = "Playlist not found"
  /\ Len(Playlists) = 1
  /\ Len(Playlists[1].songs) = 1

\* C16: no two records of the song collection share an id, and every step
\* of every endpoint leaves the song collection as it was or appends one
\* record with a new id at its end, so that the id and the remote-storage
\* handle of a persisted record never change.
C16_SongsOnlyAppended ==
  /\ [](\A i, j \in 1..Len(Collection) : Collection[i].id = Collection[j].id => i = j)
  /\ [][\/ Collection' = Collection
        \/ /\ Len(Collection') = Len(Collection) + 1
           /\ SubSeq(Collection', 1, Len(Collection)) = Collection
           /\ WithId(Collection'[Len(Collection')].id) = {}
           /\ \E r \in Reqs : UploadContinues(r)]_vars

C16_Witness ==
  /\ Len(Collection) = 2
  /\ up[1].status = 200
  /\ Collection[2] = up[1].body[1]
  /\ resp.op = "add"
  /\ resp.status = 200
  /\ resp.arg2 = SongId(1)

\* `s` is `t` or `t` without its last element.
GrewByAtMostOne(s, t) ==
  /\ Len(s) <= Len(t)
  /\ Len(t) <= Len(s) + 1
  /\ SubSeq(t, 1, Len(s)) = s

\* C17: a playlist is created with an empty song sequence and keeps its
\* place, id and name; in every step its song sequence stays as it was or
\* gains one entry at its end, and it gains one only in a PUT
\* /playlist/:id/add on its own id that answers 200, the entry being the
\* song of the id the request names.
C17_PlaylistOnlyGrowsByAdd ==
  [][/\ Len(Playlists) <= Len(Playlists')
     /\ Len(Playlists') <= Len(Playlists) + 1
     /\ Len(Playlists') > Len(Playlists) =>
          /\ Playlists'[Len(Playlists')].songs = <<>>
          /\ \E name \in PlaylistNames : CreatePlaylist(name)
     /\ \A p \in 1..Len(Playlists) :
          /\ Playlists'[p].id = Playlists[p].id
          /\ Playlists'[p].name = Playlists[p].name
          /\ GrewByAtMostOne(Playlists[p].songs, Playlists'[p].songs)
          /\ Playlists'[p].songs # Playlists[p].songs =>
               /\ resp'.status = 200
               /\ \E sid \in SongIds :
                    /\ AddToPlaylist(Playlists[p].id, sid)
                    /\ Playlists'[p].songs[Len(Playlists'[p].songs)].id = sid]_vars

C17_Witness ==
  /\ Len(Playlists) = 2
  /\ Len(Playlists[1].songs) = 1
  /\ Len(Playlists[2].songs) = 1
  /\ resp.op = "add"
  /\ resp.status = 200
  /\ resp.arg1 = PlaylistId(2)

\* The records of the collection whose handle is `h`.
RecordsWithHandle(h) == {i \in 1..Len(Collection) : Collection[i].driveFileId = h}

\* C18: when every upload that arrived is over, every object the pipeline
\* created in the remote store is the handle of exactly one record, and an
\* upload that answered 500 has left no remote object.
C18_ObjectsMatchRecords ==
  (\A r \in Reqs : up[r].pc \in {"idle", "done"}) =>
    /\ \A h \in remoteObjects : Cardinality(RecordsWithHandle(h)) = 1
    /\ \A r \in Reqs : up[r].status = 500 => DriveId(r) \notin remoteObjects

\* C19: every upload that has arrived comes to answer 400, 500 or 200; it
\* has answered exactly when it is over, and once it has answered nothing
\* of it changes any more: no second answer is sent.
C19_ExactlyOneResponse ==
  /\ \A r \in Reqs :
       (up[r].pc # "idle") ~> (up[r].pc = "done" /\ up[r].status \in {400, 500, 200})
  /\ [](\A r \in Reqs : up[r].status # 0 <=> up[r].pc = "done")
  /\ [][\A r \in Reqs : up[r].status # 0 => up'[r] = up[r]]_vars

C19_Witness ==
  /\ \A r \in Reqs : up[r].pc = "done"
  /\ \E r \in Reqs : up[r].status = 500 /\ Made(up[r], "permissions.create", "error")
  /\ \E r \in Reqs : up[r].status = 200 /\ Len(up[r].calls) = 8

\* A name without its extension: path.extname(name) taken off its end.
WithoutExtension(name) == SubSeq(name, 1, Len(name) - Len(extname(name)))

\* C20: without a title tag, the title the handler prepares is the original
\* file name with its extension taken off its end and nothing else changed.
C20_TitleIsNameWithoutExtension ==
  \A r \in Reqs :
    (up[r].pc = "create" /\ ~Truthy(up[r].tags.title)) =>
      up[r].title = WithoutExtension(up[r].originalname)

====
